---- MODULE Spec2Model ----
(***************************************************************************)
(* Market-data reconciliation pipeline of the antique tracker backend:     *)
(* the eBay search clients (app/services/ebay.py) and the identify         *)
(* handler with its search and refinement stages (app/api/ai_identifier.py)*)
(*                                                                         *)
(* Money.  A price parsed from the upstream payload is a Python float; it  *)
(* is modelled as an integer number of mills (1/1000 of a currency unit).  *)
(* The four statistics of a snapshot are round(x, 2) of a float and are    *)
(* modelled as an integer number of cents.                                 *)
(***************************************************************************)
EXTENDS Integers, Sequences, FiniteSets, TLC

VARIABLES
    \* ---- one call of a marketplace client (SpecSearch) ----
    client,        \* which client class serves the call: "finding" | "browse"
    data,          \* the upstream response of the call
    limit,         \* the limit argument of the call
    snap,          \* what the call produced: None, Raised or an EbayMarketData
    \* ---- one run of the identify handler (Spec) ----
    pc,            \* position of the handler
    openai_api_key,\* settings.openai_api_key is set
    app_id,        \* settings.ebay_app_id is set
    ai_result,     \* the estimate dict, None before it is parsed
    initial,       \* the estimate as parsed from the identification payload
    market_data,   \* the local market_data of search_ebay_for_item, then of identify_item
    searchLog,     \* the searches issued by search_ebay_for_item, in order
    refineLog,     \* the refinement calls made, in order
    response,      \* the IdentifyResponse returned, None before
    failure,       \* the error that left the handler, None if none
    \* ---- settings and what every handler shares ----
    cert_id,       \* settings.ebay_cert_id is set
    app_token,     \* settings.ebay_app_token is set
    calls,         \* external HTTP requests sent so far
    id_outcome,    \* how the initial identification call ended, "" before
    \* ---- one run of the scan-shelf handler (SpecShelf) ----
    spc,           \* position of the handler
    max_items,     \* request.max_items
    identified_items, \* the candidates parsed from the payload, None before
    deals,         \* the ShelfItems appended so far
    shelfLog,      \* per candidate handled: how its enrichment went
    shelf_response,\* the ShelfScanResponse returned, None before
    shelf_failure, \* the error that left the handler, None if none
    \* ---- searches of the token-based EbayClient (SpecToken) ----
    tpc,           \* position of each search
    access_token,  \* EbayClient._access_token, "" while it is None
    issued,        \* the tokens successful exchanges have returned
    sent,          \* per search: the bearer token of its search request, "" before
    exchanges,     \* client-credentials exchanges requested so far
    token_error,   \* per search: the exception that ended it, "" if none
    readiness,     \* what the last readiness evaluation returned, None before
    \* ---- one run of the diagnostic search endpoint (SpecDiag) ----
    diag,          \* position and result of test_ebay_search
    \* ---- one run of the structured-response extractor (SpecExtract) ----
    content,       \* the message content handed to the extractor, as tokens
    extracted      \* what the extraction and json.loads came to, None before

searchVars == <<client, data, limit, snap>>
identifyVars == <<pc, openai_api_key, app_id, ai_result, initial, market_data,
                  searchLog, refineLog, response, failure>>
settingVars == <<cert_id, app_token>>
extractVars == <<content, extracted>>
callVars == <<calls, id_outcome>>
shelfVars == <<spc, max_items, identified_items, deals, shelfLog,
               shelf_response, shelf_failure>>
tokenVars == <<tpc, access_token, issued, sent, exchanges, token_error, readiness>>
vars == <<client, data, limit, snap, pc, openai_api_key, app_id, ai_result,
          initial, market_data, searchLog, refineLog, response, failure,
          cert_id, app_token, calls, id_outcome,
          spc, max_items, identified_items, deals, shelfLog, shelf_response,
          shelf_failure,
          tpc, access_token, issued, sent, exchanges, token_error, readiness,
          diag, content, extracted>>

None == [kind |-> "none"]

(***************************************************************************)
(* Bounds of the model.                                                    *)
(***************************************************************************)
MaxRecords == 3        \* records in an upstream response (one client call)
MaxLimit == 2          \* largest limit argument of a direct client call
MaxKeywords == 4       \* keywords in an identification payload
MaxPipeRecords == 1    \* records in an upstream response during identify
MaxTotal == 3          \* largest total the marketplace reports during identify
MaxCandidates == 2     \* candidates in a shelf-scan identification payload
MaxShelfRecords == 1   \* records in an upstream response during scan-shelf

(***************************************************************************)
(* Upstream payload of a search.                                           *)
(***************************************************************************)
Absent == "<absent>"
\* the "__value__" (Finding) / "value" (Browse) field of a record's price
RawPrices == {"1.00", "2.00", "3.005", "0", "N/A", Absent}
SellingStates == {"EndedWithSales", "EndedWithoutSales"}
ItemRecords == [value : RawPrices, sellingState : SellingStates]

\* float(s) raises ValueError
Unparseable(raw) == raw = "N/A"

\* float(price.get("__value__", 0)), in mills
FloatOf(raw) ==
    CASE raw = "1.00" -> 1000
      [] raw = "2.00" -> 2000
      [] raw = "3.005" -> 3005
      [] raw = "12.00" -> 12000
      [] raw = "24.00" -> 24000
      [] raw = "39.70" -> 39700
      [] raw = "40.00" -> 40000
      [] OTHER -> 0

\* Decimal ties x.xx5 are not doubles: float("3.005") is the double
\* 3.00499999999999989..., so round(3.005, 2) is 3.0.
BelowTie == {3005}

RECURSIVE SeqsUpTo(_, _)
SeqsUpTo(S, n) ==
    IF n = 0 THEN {<<>>}
    ELSE LET shorter == SeqsUpTo(S, n - 1)
         IN  shorter \cup {Append(s, x) : s \in {t \in shorter : Len(t) = n - 1}, x \in S}

Take(s, n) == SubSeq(s, 1, IF n < Len(s) THEN n ELSE Len(s))

(***************************************************************************)
(* round(x, 2) and the statistics.                                         *)
(***************************************************************************)
\* round(p, 2) of a float that was parsed from the payload, in cents
RoundStored(p) ==
    IF p % 10 = 5
    THEN IF p \in BelowTie THEN p \div 10 ELSE (p \div 10) + 1
    ELSE (p + 5) \div 10

\* round(num/den, 2), num/den in mills, of a float that was computed: a
\* quotient that is a decimal tie in exact arithmetic is a double on either
\* side of the tie, so both neighbours are outcomes.
RoundComputed(num, den) ==
    LET lo == num \div (10 * den)
        r  == num % (10 * den)
    IN  IF r = 5 * den THEN {lo, lo + 1}
        ELSE IF r < 5 * den THEN {lo} ELSE {lo + 1}

RECURSIVE Insert(_, _)
Insert(x, s) ==
    IF s = <<>> THEN <<x>>
    ELSE IF x < Head(s) THEN <<x>> \o s
    ELSE <<Head(s)>> \o Insert(x, Tail(s))

RECURSIVE sorted(_)
sorted(s) == IF s = <<>> THEN <<>> ELSE Insert(Head(s), sorted(Tail(s)))

RECURSIVE sum(_)
sum(s) == IF s = <<>> THEN 0 ELSE Head(s) + sum(Tail(s))

AllEqual(s) == \A i \in 1..Len(s) : s[i] = s[1]

\* sum(prices) / len(prices), then round(avg_price, 2): the outcomes in cents
AvgPrice(prices) ==
    IF AllEqual(prices) /\ Len(prices) <= 2
    THEN {RoundStored(prices[1])}     \* p and p + p are exact, so is the quotient
    ELSE RoundComputed(sum(prices), Len(prices))

\* MedianPrice without the even-count branch: always prices_sorted[mid]
MedianPriceUpperMiddle(prices) ==
    LET prices_sorted == sorted(prices)
        mid == Len(prices_sorted) \div 2
    IN  {RoundStored(prices_sorted[mid + 1])}

\* prices_sorted[mid] if odd else (prices_sorted[mid-1] + prices_sorted[mid]) / 2,
\* then round(median_price, 2): the outcomes in cents
MedianPrice(prices) ==
    LET prices_sorted == sorted(prices)
        mid == Len(prices_sorted) \div 2       \* 0-based index
    IN  IF Len(prices_sorted) % 2 = 1
        THEN {RoundStored(prices_sorted[mid + 1])}
        ELSE IF prices_sorted[mid] = prices_sorted[mid + 1]
             THEN {RoundStored(prices_sorted[mid])}
             ELSE RoundComputed(prices_sorted[mid] + prices_sorted[mid + 1], 2)

\* the "Calculate stats" block: the possible (avg, min, max, median) in cents
Stats(prices) ==
    IF prices # <<>>
    THEN LET prices_sorted == sorted(prices)
         IN  [avg_price : AvgPrice(prices),
              min_price : {RoundStored(prices_sorted[1])},
              max_price : {RoundStored(prices_sorted[Len(prices_sorted)])},
              median_price : MedianPrice(prices)]
    ELSE {[avg_price |-> 0, min_price |-> 0, max_price |-> 0, median_price |-> 0]}

(***************************************************************************)
(* EbayFindingClient.find_completed_items and EbayClient.search_sold_items *)
(***************************************************************************)
\* the request got no HTTP response (timeout, connection error): client.get raises
NoResponse == [status |-> 0, item |-> <<>>, totalEntries |-> 0]

Responses ==
    [status : {200}, item : SeqsUpTo(ItemRecords, MaxRecords), totalEntries : {0, 5}]
    \cup [status : {500}, item : {<<>>}, totalEntries : {0}]
    \cup {NoResponse}

ValueError == [kind |-> "raised", error |-> "ValueError"]
UpstreamError == [kind |-> "raised", error |-> "Exception"]
TransportError == [kind |-> "raised", error |-> "httpx.RequestError"]

\* the parse loop of the Finding client: what it appends to items; title
\* stands for the record's fields other than the price (its place upstream)
RECURSIVE FindingItems(_, _, _)
FindingItems(item, sold_only, i) ==
    IF i > Len(item) THEN <<>>
    ELSE LET price == FloatOf(item[i].value)
             sold_state == item[i].sellingState
             rest == FindingItems(item, sold_only, i + 1)
         IN  IF sold_state # "EndedWithSales" /\ sold_only THEN rest
             ELSE IF price > 0 THEN <<[title |-> i, price |-> price]>> \o rest
             ELSE rest

\* FindingPrices with prices.append ahead of the sold-state test
RECURSIVE FindingPricesUnfiltered(_, _, _)
FindingPricesUnfiltered(item, sold_only, i) ==
    IF i > Len(item) THEN <<>>
    ELSE LET price == FloatOf(item[i].value)
             rest == FindingPricesUnfiltered(item, sold_only, i + 1)
         IN  IF price > 0 THEN <<price>> \o rest
             ELSE rest

\* the parse loop of the Finding client: what it appends to prices
RECURSIVE FindingPrices(_, _, _)
FindingPrices(item, sold_only, i) ==
    IF i > Len(item) THEN <<>>
    ELSE LET price == FloatOf(item[i].value)
             sold_state == item[i].sellingState
             rest == FindingPrices(item, sold_only, i + 1)
         IN  IF sold_state # "EndedWithSales" /\ sold_only THEN rest
             ELSE IF price > 0 THEN <<price>> \o rest
             ELSE rest

\* the parse loop of the Browse client (no selling state in its payload)
RECURSIVE BrowseItems(_, _)
BrowseItems(itemSummaries, i) ==
    IF i > Len(itemSummaries) THEN <<>>
    ELSE LET price == FloatOf(itemSummaries[i].value)
             rest == BrowseItems(itemSummaries, i + 1)
         IN  IF price > 0 THEN <<[title |-> i, price |-> price]>> \o rest
             ELSE rest

RECURSIVE BrowsePrices(_, _)
BrowsePrices(itemSummaries, i) ==
    IF i > Len(itemSummaries) THEN <<>>
    ELSE LET price == FloatOf(itemSummaries[i].value)
             rest == BrowsePrices(itemSummaries, i + 1)
         IN  IF price > 0 THEN <<price>> \o rest
             ELSE rest

\* the EbayMarketData(...) built at the end of a search: one per outcome of
\* the float statistics
MarketData(query, total, items, prices, lim) ==
    {[kind |-> "data", query |-> query, total_found |-> total,
      items |-> Take(items, lim),
      avg_price |-> st.avg_price, min_price |-> st.min_price,
      max_price |-> st.max_price, median_price |-> st.median_price]
        : st \in Stats(prices)}

\* EbayFindingClient.find_completed_items(query, limit, sold_only) when the
\* service answers d: the set of its outcomes
find_completed_items(has_app_id, query, lim, sold_only, d) ==
    IF ~has_app_id THEN {ValueError}
    ELSE IF d = NoResponse THEN {TransportError}
    ELSE IF d.status # 200 THEN {UpstreamError}
    ELSE IF \E i \in 1..Len(d.item) : Unparseable(d.item[i].value) THEN {ValueError}
    ELSE MarketData(query, d.totalEntries, FindingItems(d.item, sold_only, 1),
                    FindingPrices(d.item, sold_only, 1), lim)

\* EbayClient.search_sold_items(query, limit) when the service answers d
search_sold_items(query, lim, d) ==
    IF d = NoResponse THEN {TransportError}
    ELSE IF d.status # 200 THEN {UpstreamError}
    ELSE IF \E i \in 1..Len(d.item) : Unparseable(d.item[i].value) THEN {ValueError}
    ELSE MarketData(query, d.totalEntries, BrowseItems(d.item, 1),
                    BrowsePrices(d.item, 1), lim)

(***************************************************************************)
(* The handlers at rest: the variables of an operation under the           *)
(* specifications of the other operations.                                 *)
(***************************************************************************)
MaxProcs == 2              \* concurrent searches through the token-based client
MaxEvaluations == 2        \* evaluations of readiness
Procs == 1..MaxProcs

ShelfIdle ==
    /\ spc = "Idle"
    /\ max_items = 0
    /\ identified_items = <<>>
    /\ deals = <<>>
    /\ shelfLog = <<>>
    /\ shelf_response = None
    /\ shelf_failure = None

TokenIdle ==
    /\ tpc = [p \in Procs |-> "Idle"]
    /\ access_token = ""
    /\ issued = {}
    /\ sent = [p \in Procs |-> ""]
    /\ exchanges = 0
    /\ token_error = [p \in Procs |-> ""]
    /\ readiness = <<>>

DiagIdle == diag = [pc |-> "Idle", result |-> None]

ExtractIdle == content = <<>> /\ extracted = None

NoCalls == calls = 0 /\ id_outcome = ""

IdentifyIdle ==
    /\ pc = "Idle"
    /\ ai_result = None
    /\ initial = None
    /\ market_data = None
    /\ searchLog = <<>>
    /\ refineLog = <<>>
    /\ response = None
    /\ failure = None

(***************************************************************************)
(* SpecSearch: one call of a marketplace client, for every response and    *)
(* every limit.  The callers pass limit 10, 15 or the default 20: a limit  *)
(* is positive.                                                            *)
(***************************************************************************)
InitSearch ==
    /\ client \in {"finding", "browse"}
    /\ data \in Responses
    /\ limit \in 1..MaxLimit
    /\ snap = None
    /\ openai_api_key = TRUE
    /\ app_id \in BOOLEAN
    /\ cert_id = TRUE
    /\ app_token = TRUE
    /\ NoCalls
    /\ IdentifyIdle
    /\ ShelfIdle
    /\ TokenIdle
    /\ ExtractIdle
    /\ DiagIdle

\* one call of EbayFindingClient.find_completed_items; the request is sent
\* only past the app id test
FindingSearch ==
    /\ client = "finding"
    /\ snap = None
    /\ snap' \in find_completed_items(app_id, "q", limit, TRUE, data)
    /\ calls' = IF app_id THEN calls + 1 ELSE calls
    /\ UNCHANGED <<client, data, limit, id_outcome>>
    /\ UNCHANGED <<identifyVars, settingVars, extractVars, shelfVars, tokenVars, diag>>

\* one call of EbayClient.search_sold_items with the token in hand
BrowseSearch ==
    /\ client = "browse"
    /\ snap = None
    /\ snap' \in search_sold_items("q", limit, data)
    /\ calls' = calls + 1
    /\ UNCHANGED <<client, data, limit, id_outcome>>
    /\ UNCHANGED <<identifyVars, settingVars, extractVars, shelfVars, tokenVars, diag>>

NextSearch == FindingSearch \/ BrowseSearch

SpecSearch == InitSearch /\ [][NextSearch]_vars

(***************************************************************************)
(* Properties of a snapshot (SpecSearch).                                  *)
(***************************************************************************)
Range(s) == {s[i] : i \in 1..Len(s)}

\* the k-th smallest element of a non-empty s, by counting
Kth(s, k) ==
    CHOOSE x \in Range(s) :
        /\ Cardinality({i \in 1..Len(s) : s[i] < x}) < k
        /\ Cardinality({i \in 1..Len(s) : s[i] <= x}) >= k

\* twice the median of a non-empty s by the even/odd rule
TwiceMedian(s) ==
    IF Len(s) % 2 = 1 THEN 2 * Kth(s, (Len(s) + 1) \div 2)
    ELSE Kth(s, Len(s) \div 2) + Kth(s, (Len(s) \div 2) + 1)

Abs(x) == IF x < 0 THEN -x ELSE x

\* c cents is num/den mills rounded to 2 decimals
IsRounded(c, num, den) == 2 * Abs(10 * den * c - num) <= 10 * den

\* the prices the loop of the call collected
CallPrices ==
    IF client = "finding" THEN FindingPrices(data.item, TRUE, 1)
    ELSE BrowsePrices(data.item, 1)

ItemPrices(items) == [i \in 1..Len(items) |-> items[i].price]

Returned == snap.kind = "data"

\* C7: a snapshot with a non-empty items sequence has
\* minPrice <= medianPrice <= maxPrice and minPrice <= avgPrice <= maxPrice.
C7_StatsOrdered ==
    (Returned /\ snap.items # <<>>) =>
        /\ snap.min_price <= snap.median_price
        /\ snap.median_price <= snap.max_price
        /\ snap.min_price <= snap.avg_price
        /\ snap.avg_price <= snap.max_price

\* C8: a snapshot whose items sequence is empty has all four statistics 0,
\* and a non-zero statistic implies a non-empty items sequence.
C8_EmptyItemsZeroStats ==
    Returned =>
        /\ snap.items = <<>> =>
              /\ snap.avg_price = 0 /\ snap.min_price = 0
              /\ snap.max_price = 0 /\ snap.median_price = 0
        /\ (snap.avg_price # 0 \/ snap.min_price # 0
              \/ snap.max_price # 0 \/ snap.median_price # 0) => snap.items # <<>>

C8_Witness ==
    /\ Returned
    /\ snap.items = <<>>
    /\ \E i \in 1..Len(data.item) : FloatOf(data.item[i].value) > 0

\* C9: the items sequence has at most limit entries and the four statistics
\* are the mean, minimum, maximum and median of the prices of the returned
\* items.
C9_StatsOfReturnedItems ==
    Returned =>
        LET ps == ItemPrices(snap.items)
        IN  /\ Len(snap.items) <= limit
            /\ ps # <<>> =>
                  /\ IsRounded(snap.min_price, Kth(ps, 1), 1)
                  /\ IsRounded(snap.max_price, Kth(ps, Len(ps)), 1)
                  /\ IsRounded(snap.avg_price, sum(ps), Len(ps))
                  /\ IsRounded(snap.median_price, TwiceMedian(ps), 2)

\* C10: medianPrice is the median of the collected prices by the even/odd
\* rule (the middle value for an odd count, the mean of the two middle
\* values for an even count), rounded to 2 decimals.
C10_MedianEvenOddRule ==
    (Returned /\ CallPrices # <<>>) =>
        IsRounded(snap.median_price, TwiceMedian(CallPrices), 2)

C10_Witness ==
    /\ Returned
    /\ Len(CallPrices) = 2
    /\ CallPrices[1] > CallPrices[2]

\* C11: a record whose price is missing, non-positive or unparseable is left
\* out of items and statistics, every returned item has price > 0, and such
\* a record never makes the search fail: a call the service answers with
\* status 200 returns a snapshot.
C11_PartialRecordsTolerated ==
    (snap # None /\ data.status = 200 /\ (client = "finding" => app_id)) =>
        /\ Returned
        /\ \A i \in 1..Len(snap.items) : snap.items[i].price > 0
        /\ \A i \in 1..Len(snap.items) :
              ~Unparseable(data.item[snap.items[i].title].value)

(***************************************************************************)
(* The identify handler: identify_item, search_ebay_for_item and           *)
(* refine_estimate_with_market_data.                                       *)
(***************************************************************************)
SearchLimit == 15          \* limit=15 of both searches of identify
MaxComparables == 5        \* market_data.items[:5]

ItemNames == {"Vase", "Pyrex Dish"}
Keywords == {"glass", "blue"}

\* the dicts json.loads can return for an identification payload that has
\* the fields of IdentifyResponse; amounts in currency units
Estimates ==
    [kind : {"estimate"},
     item_name : ItemNames,
     description : {"Blue glass vase"},
     category : {"vases"},
     era_period : {"1950s"},
     estimated_value_low : {10},
     estimated_value_high : {25},
     suggested_price : {18},
     condition_notes : {"Good"},
     selling_tips : {"Display in light"},
     keywords : SeqsUpTo(Keywords, MaxKeywords),
     confidence : {"medium"}]

\* what the initial identification call can end in
IdentifyOutcomes ==
    {[kind |-> "timeout"], [kind |-> "request_error"],
     [kind |-> "status", status |-> 429], [kind |-> "bad_json"]}
    \cup [kind : {"ok"}, estimate : Estimates]

\* the dicts json.loads can return for a refinement payload: keys lists the
\* fields that are present (a field that is absent is written with its
\* first value); confidence is a field the prompt does not ask
\* for
RevisionKeys == {"estimated_value_low", "estimated_value_high",
                 "suggested_price", "market_analysis", "confidence"}
Revisions ==
    {r \in [keys : SUBSET RevisionKeys,
            estimated_value_low : {30},
            estimated_value_high : {60},
            suggested_price : {45},
            market_analysis : {"", "Sold lower on eBay"},
            confidence : {"high"}] :
        "market_analysis" \notin r.keys => r.market_analysis = ""}

\* what the refinement call can end in
RefineOutcomes ==
    {[kind |-> "timeout"], [kind |-> "request_error"],
     [kind |-> "status", status |-> 500], [kind |-> "bad_json"]}
    \cup [kind : {"ok"}, revision : Revisions]

\* what the marketplace can answer during identify
PipeItemRecords == [value : {"2.00", "0", "N/A"}, sellingState : {"EndedWithSales"}]
PipeResponses ==
    [status : {200}, item : SeqsUpTo(PipeItemRecords, MaxPipeRecords),
     totalEntries : 0..MaxTotal]
    \cup [status : {500}, item : {<<>>}, totalEntries : {0}]
    \cup {NoResponse}

RECURSIVE Join(_)
\* " ".join(terms)
Join(terms) ==
    IF terms = <<>> THEN ""
    ELSE IF Len(terms) = 1 THEN terms[1]
    ELSE terms[1] \o " " \o Join(Tail(terms))

\* search_terms with both slices one longer
search_terms_long(item_name, keywords) == Take(<<item_name>> \o Take(keywords, 4), 5)

\* search_terms = [item_name] + keywords[:3], then search_terms[:4]
search_terms(item_name, keywords) == Take(<<item_name>> \o Take(keywords, 3), 4)

\* keywords[:2] of the broader search
broader_terms(keywords) == Take(keywords, 2)

\* TooFewResults with <= in place of <
TooFewResultsInclusive(md, keywords) == md.total_found <= 3 /\ Len(keywords) > 1

\* if market_data.total_found < 3 and len(keywords) > 1
TooFewResults(md, keywords) == md.total_found < 3 /\ Len(keywords) > 1

\* SearchFailed that returns the market data found so far
SearchFailedKeepsData(md) == md

\* the except branch of search_ebay_for_item; md is the local market_data
\* when the exception is raised
SearchFailed(md) == None

\* Broadened that keeps the snapshot reporting more results
BroadenedKeepsBetter(first, second) ==
    IF second.total_found < first.total_found THEN first ELSE second

\* market_data after the broader search returned second: the assignment
\* overwrites the snapshot of the first search
Broadened(first, second) == second

\* HasResults without the total_found test
HasResultsAny(md) == md.kind = "data"

\* if market_data and market_data.total_found > 0
HasResults(md) == md.kind = "data" /\ md.total_found > 0

\* refined.get(key, ai_result[key])
GetIgnoresPresence(revision, key, default) == revision[key]

Get(revision, key, default) == IF key \in revision.keys THEN revision[key] ELSE default

\* ai_result["selling_tips"] after the market_analysis note of the revision
ReplaceWithMarketAnalysis(tips, note) ==
    IF note # "" THEN "Market Analysis: " \o note ELSE tips

AppendMarketAnalysis(tips, note) ==
    IF note # "" THEN tips \o "\n\nMarket Analysis: " \o note ELSE tips

\* refine_estimate_with_market_data that takes over every field of the
\* revision
refine_estimate_with_market_data_update(est, o) ==
    CASE o.kind = "timeout" -> [kind |-> "raised", error |-> "httpx.TimeoutException"]
      [] o.kind = "request_error" -> [kind |-> "raised", error |-> "httpx.RequestError"]
      [] o.kind = "status" -> est
      [] o.kind = "bad_json" -> [kind |-> "raised", error |-> "json.JSONDecodeError"]
      [] o.kind = "ok" ->
           LET refined == o.revision
               note == Get(refined, "market_analysis", "")
           IN  [est EXCEPT
                  !.estimated_value_low =
                      Get(refined, "estimated_value_low", est.estimated_value_low),
                  !.estimated_value_high =
                      Get(refined, "estimated_value_high", est.estimated_value_high),
                  !.suggested_price =
                      Get(refined, "suggested_price", est.suggested_price),
                  !.confidence = Get(refined, "confidence", est.confidence),
                  !.selling_tips = AppendMarketAnalysis(est.selling_tips, note)]

\* refine_estimate_with_market_data(ai_result, market_data) when its call to
\* the reasoning service ends in o: the dict returned or the exception raised
refine_estimate_with_market_data(est, o) ==
    CASE o.kind = "timeout" -> [kind |-> "raised", error |-> "httpx.TimeoutException"]
      [] o.kind = "request_error" -> [kind |-> "raised", error |-> "httpx.RequestError"]
      [] o.kind = "status" -> est
      [] o.kind = "bad_json" -> [kind |-> "raised", error |-> "json.JSONDecodeError"]
      [] o.kind = "ok" ->
           LET refined == o.revision
               note == Get(refined, "market_analysis", "")
           IN  [est EXCEPT
                  !.estimated_value_low =
                      Get(refined, "estimated_value_low", est.estimated_value_low),
                  !.estimated_value_high =
                      Get(refined, "estimated_value_high", est.estimated_value_high),
                  !.suggested_price =
                      Get(refined, "suggested_price", est.suggested_price),
                  !.selling_tips = AppendMarketAnalysis(est.selling_tips, note)]

\* MarketDataResponse(...) built from the snapshot
MarketDataResponse(md) ==
    [kind |-> "market", source |-> "eBay Completed Sales", query |-> md.query,
     total_found |-> md.total_found, avg_price |-> md.avg_price,
     min_price |-> md.min_price, max_price |-> md.max_price,
     median_price |-> md.median_price,
     comparables |-> Take(md.items, MaxComparables)]

\* IdentifyResponse(**ai_result, market_data=market_response)
IdentifyResponse(est, market_response) ==
    [kind |-> "response", estimate |-> est, market_data |-> market_response]

HTTPException(status, stage) == [kind |-> "HTTPException", status |-> status, stage |-> stage]
Unhandled(error, stage) == [kind |-> "unhandled", error |-> error, stage |-> stage]

SearchIdle ==
    /\ client = "none"
    /\ data = NoResponse
    /\ limit = SearchLimit
    /\ snap = None

Init ==
    /\ pc = "AwaitingImage"
    /\ openai_api_key \in BOOLEAN
    /\ app_id \in BOOLEAN
    /\ ai_result = None
    /\ initial = None
    /\ market_data = None
    /\ searchLog = <<>>
    /\ refineLog = <<>>
    /\ response = None
    /\ failure = None
    /\ cert_id = FALSE
    /\ app_token = FALSE
    /\ NoCalls
    /\ SearchIdle
    /\ ShelfIdle
    /\ TokenIdle
    /\ ExtractIdle
    /\ DiagIdle

\* identify_item up to its first await: the key check, then the request to
\* the reasoning service is sent
\* identify_item up to its first await
StartSendsBeforeKeyCheck ==
    /\ pc = "AwaitingImage"
    /\ calls' = calls + 1
    /\ IF ~openai_api_key
       THEN /\ pc' = "Failed"
            /\ failure' = HTTPException(500, "AwaitingImage")
       ELSE /\ pc' = "Identifying"
            /\ UNCHANGED failure
    /\ UNCHANGED <<openai_api_key, app_id, ai_result, initial, market_data,
                   searchLog, refineLog, response, id_outcome>>
    /\ UNCHANGED <<searchVars, settingVars, extractVars, shelfVars, tokenVars, diag>>

Start ==
    /\ pc = "AwaitingImage"
    /\ IF ~openai_api_key
       THEN /\ pc' = "Failed"
            /\ failure' = HTTPException(500, "AwaitingImage")
            /\ UNCHANGED calls
       ELSE /\ pc' = "Identifying"
            /\ calls' = calls + 1
            /\ UNCHANGED failure
    /\ UNCHANGED <<openai_api_key, app_id, ai_result, initial, market_data,
                   searchLog, refineLog, response, id_outcome>>
    /\ UNCHANGED <<searchVars, settingVars, extractVars, shelfVars, tokenVars, diag>>

\* identify_item after search_ebay_for_item returned md: refine when there
\* are results, else return the response
AfterSearch(md) ==
    /\ market_data' = md
    /\ IF HasResults(md)
       THEN /\ pc' = "Refining"
            /\ calls' = calls + 1
            /\ refineLog' = Append(refineLog, [market_data |-> md, outcome |-> None])
            /\ UNCHANGED response
       ELSE /\ pc' = "Complete"
            /\ response' = IdentifyResponse(ai_result, None)
            /\ UNCHANGED <<refineLog, calls>>

\* the initial identification call ends in o; on a parsed estimate the
\* handler goes on to its next await (the first search) or to its return
\* the status of the HTTPException a failed identification call becomes
identify_error_status_flat(o) ==
    IF o.kind = "status" THEN o.status ELSE 500

identify_error_status(o) ==
    IF o.kind = "timeout" THEN 504
    ELSE IF o.kind = "status" THEN o.status
    ELSE 500

IdentifyResponds(o) ==
    /\ pc = "Identifying"
    /\ CASE o.kind = "timeout" ->
              /\ pc' = "Failed"
              /\ failure' = HTTPException(identify_error_status(o), "Identifying")
              /\ UNCHANGED <<ai_result, initial, searchLog, response, calls>>
         [] o.kind = "request_error" ->
              /\ pc' = "Failed"
              /\ failure' = HTTPException(identify_error_status(o), "Identifying")
              /\ UNCHANGED <<ai_result, initial, searchLog, response, calls>>
         [] o.kind = "status" ->
              /\ pc' = "Failed"
              /\ failure' = HTTPException(identify_error_status(o), "Identifying")
              /\ UNCHANGED <<ai_result, initial, searchLog, response, calls>>
         [] o.kind = "bad_json" ->
              /\ pc' = "Failed"
              /\ failure' = HTTPException(500, "Identifying")
              /\ UNCHANGED <<ai_result, initial, searchLog, response, calls>>
         [] o.kind = "ok" ->
              /\ ai_result' = o.estimate
              /\ initial' = o.estimate
              /\ UNCHANGED failure
              /\ IF app_id
                 THEN LET terms == search_terms(o.estimate.item_name, o.estimate.keywords)
                      IN  /\ pc' = "SearchingMarket"
                          /\ searchLog' = <<[terms |-> terms, query |-> Join(terms),
                                             outcome |-> None]>>
                          /\ calls' = calls + 1
                          /\ UNCHANGED response
                 ELSE /\ pc' = "Complete"
                      /\ response' = IdentifyResponse(o.estimate, None)
                      /\ UNCHANGED <<searchLog, calls>>
    /\ id_outcome' = o.kind
    /\ UNCHANGED <<openai_api_key, app_id, market_data, refineLog>>
    /\ UNCHANGED <<searchVars, settingVars, extractVars, shelfVars, tokenVars, diag>>

\* the first search of search_ebay_for_item ends: d is the marketplace's
\* answer, md an outcome of find_completed_items on it; too few results
\* send the broader search
FirstSearchResponds(d) ==
    /\ pc = "SearchingMarket"
    /\ Len(searchLog) = 1
    /\ \E md \in find_completed_items(app_id, searchLog[1].query, SearchLimit, TRUE, d) :
          IF md.kind = "raised"
          THEN /\ searchLog' = [searchLog EXCEPT ![1].outcome = md]
               /\ AfterSearch(SearchFailed(market_data))
          ELSE IF TooFewResults(md, ai_result.keywords)
          THEN LET terms == broader_terms(ai_result.keywords)
               IN  /\ searchLog' = Append([searchLog EXCEPT ![1].outcome = md],
                                          [terms |-> terms, query |-> Join(terms),
                                           outcome |-> None])
                   /\ market_data' = md
                   /\ calls' = calls + 1
                   /\ UNCHANGED <<pc, refineLog, response>>
          ELSE /\ searchLog' = [searchLog EXCEPT ![1].outcome = md]
               /\ AfterSearch(md)
    /\ UNCHANGED <<openai_api_key, app_id, ai_result, initial, failure, id_outcome>>
    /\ UNCHANGED <<searchVars, settingVars, extractVars, shelfVars, tokenVars, diag>>

\* the broader search of search_ebay_for_item ends
BroaderSearchResponds(d) ==
    /\ pc = "SearchingMarket"
    /\ Len(searchLog) = 2
    /\ \E md \in find_completed_items(app_id, searchLog[2].query, SearchLimit, TRUE, d) :
          /\ searchLog' = [searchLog EXCEPT ![2].outcome = md]
          /\ IF md.kind = "raised"
             THEN AfterSearch(SearchFailed(market_data))
             ELSE AfterSearch(Broadened(market_data, md))
    /\ UNCHANGED <<openai_api_key, app_id, ai_result, initial, failure, id_outcome>>
    /\ UNCHANGED <<searchVars, settingVars, extractVars, shelfVars, tokenVars, diag>>

\* the refinement call ends in o; identify_item then builds the market
\* summary and returns, unless refine raised
RefineResponds(o) ==
    /\ pc = "Refining"
    /\ refineLog' = [refineLog EXCEPT ![Len(refineLog)].outcome = o]
    /\ LET refined == refine_estimate_with_market_data(ai_result, o)
       IN  IF refined.kind = "raised"
           THEN /\ pc' = "Failed"
                /\ failure' = Unhandled(refined.error, "Refining")
                /\ UNCHANGED <<ai_result, response>>
           ELSE /\ pc' = "Complete"
                /\ ai_result' = refined
                /\ response' = IdentifyResponse(refined, MarketDataResponse(market_data))
                /\ UNCHANGED failure
    /\ UNCHANGED <<openai_api_key, app_id, initial, market_data, searchLog>>
    /\ UNCHANGED <<searchVars, settingVars, extractVars, callVars, shelfVars, tokenVars, diag>>

Next ==
    \/ Start
    \/ \E o \in IdentifyOutcomes : IdentifyResponds(o)
    \/ \E d \in PipeResponses : FirstSearchResponds(d)
    \/ \E d \in PipeResponses : BroaderSearchResponds(d)
    \/ \E o \in RefineOutcomes : RefineResponds(o)

Spec == Init /\ [][Next]_vars

(***************************************************************************)
(* Properties of the identify handler (Spec).                              *)
(***************************************************************************)
SamePrices(a, b) ==
    /\ a.estimated_value_low = b.estimated_value_low
    /\ a.estimated_value_high = b.estimated_value_high
    /\ a.suggested_price = b.suggested_price

\* the search stage is over and this is its last search
LastSearch == searchLog[Len(searchLog)]
SearchOver == searchLog # <<>> /\ LastSearch.outcome # None

\* C1: when the refinement call ends in a non-success status, a transport
\* error or a timeout, or content that is not JSON, identify returns the
\* estimate with its three price fields as before refinement and no error
\* reaches its caller.
C1_RefineBestEffort ==
    (refineLog # <<>>
       /\ refineLog[1].outcome.kind \in {"status", "timeout", "request_error", "bad_json"}) =>
        /\ pc = "Complete"
        /\ failure = None
        /\ response.kind = "response"
        /\ SamePrices(response.estimate, initial)

\* C2: identify fails only before the initial identification has been
\* parsed into an estimate; once there is an estimate the handler does not
\* end in Failed.
C2_FailedOnlyFromIdentifying ==
    pc = "Failed" => initial = None

\* C3: when the last search of identify raised, or reported zero results,
\* the handler completes, never calls refinement, returns no market summary
\* and returns the three price fields of the initial identification.
C3_MarketErrorsCaught ==
    (SearchOver /\ (LastSearch.outcome.kind = "raised"
                      \/ LastSearch.outcome.total_found = 0)) =>
        /\ pc = "Complete"
        /\ failure = None
        /\ refineLog = <<>>
        /\ response.market_data = None
        /\ SamePrices(response.estimate, initial)

C3_Witness ==
    /\ pc = "Complete"
    /\ Len(searchLog) = 2
    /\ searchLog[1].outcome.total_found > 0
    /\ searchLog[2].outcome.kind = "raised"

\* C4 as claimed: refinement is called only with a snapshot whose items
\* sequence is non-empty.
C4_RefineOnlyWithComparables ==
    \A i \in 1..Len(refineLog) : refineLog[i].market_data.items # <<>>

\* C4 as amended: refinement is called only with a snapshot that reports
\* total_found > 0, and a search stage that ends with a snapshot reporting
\* zero results is never followed by a refinement call.
C4_RefineOnlyWithResults ==
    /\ \A i \in 1..Len(refineLog) :
          /\ refineLog[i].market_data.kind = "data"
          /\ refineLog[i].market_data.total_found > 0
    /\ (SearchOver /\ LastSearch.outcome.kind = "data"
          /\ LastSearch.outcome.total_found = 0) => refineLog = <<>>

C4_Witness ==
    /\ refineLog # <<>>
    /\ refineLog[1].market_data.total_found > 0
    /\ refineLog[1].market_data.items = <<>>

\* C5: a second search is issued exactly when the first search reported
\* fewer than 3 results and there is more than one keyword; its query is the
\* first 2 keywords joined by a space; there is never a third search.
C5_BroadeningOnce ==
    /\ Len(searchLog) <= 2
    /\ (searchLog # <<>> /\ searchLog[1].outcome # None) =>
          (Len(searchLog) = 2 <=>
              /\ searchLog[1].outcome.kind = "data"
              /\ searchLog[1].outcome.total_found < 3
              /\ Len(initial.keywords) > 1)
    /\ Len(searchLog) = 2 =>
          searchLog[2].query = initial.keywords[1] \o " " \o initial.keywords[2]

C5_Witness ==
    /\ Len(searchLog) = 2
    /\ Len(initial.keywords) > 2
    /\ searchLog[1].outcome.total_found = 2

\* C6: the first query is the item name followed by the first min(3, n)
\* keywords in order, joined by single spaces; at most 4 terms.
C6_FirstQuery ==
    searchLog # <<>> =>
        LET kw == initial.keywords
            n == Len(kw)
            name == initial.item_name
        IN  /\ Len(searchLog[1].terms) <= 4
            /\ Len(searchLog[1].terms) = 1 + (IF n < 3 THEN n ELSE 3)
            /\ searchLog[1].query =
                  CASE n = 0 -> name
                    [] n = 1 -> name \o " " \o kw[1]
                    [] n = 2 -> name \o " " \o kw[1] \o " " \o kw[2]
                    [] OTHER -> name \o " " \o kw[1] \o " " \o kw[2] \o " " \o kw[3]

C6_Witness ==
    /\ searchLog # <<>>
    /\ Len(initial.keywords) = 4
    /\ initial.keywords[4] # initial.keywords[3]

(***************************************************************************)
(* The scan-shelf handler: scan_shelf_for_deals.                           *)
(***************************************************************************)
ShelfLimit == 10           \* limit=10 of the search of a candidate
DefaultShelfPrice == 5     \* item.get("estimated_shelf_price", 5) and the floor

CandidateNames == {"Pyrex bowl", "McCoy vase"}

\* the elements json.loads can put in the identified list: a dict whose
\* estimated_shelf_price is absent, a number (currency units) or null, or a
\* value that is not a dict (shape "text")
Candidates ==
    [shape : {"dict"}, item_name : CandidateNames, price_kind : {"number"},
     estimated_shelf_price : {0, 8}]
    \cup [shape : {"dict"}, item_name : CandidateNames, price_kind : {"absent", "null"},
          estimated_shelf_price : {0}]
    \cup {[shape |-> "text", item_name |-> "", price_kind |-> "absent",
           estimated_shelf_price |-> 0]}

MaxItemsVals == {1, 10}    \* request.max_items (default 10)

\* what the identification call of scan-shelf can end in; not_list is a
\* payload that parses to a value that is not a list
ShelfOutcomes ==
    {[kind |-> "timeout"], [kind |-> "request_error"],
     [kind |-> "status", status |-> 429], [kind |-> "bad_json"],
     [kind |-> "not_list"]}
    \cup [kind : {"ok"}, items : SeqsUpTo(Candidates, MaxCandidates)]

\* what the marketplace can answer during scan-shelf
ShelfItemRecords ==
    [value : {"2.00", "12.00", "24.00", "39.70", "40.00"}, sellingState : {"EndedWithSales"}]
ShelfResponses ==
    [status : {200}, item : SeqsUpTo(ShelfItemRecords, MaxShelfRecords),
     totalEntries : {5}]
    \cup {NoResponse}

\* item.get("estimated_shelf_price", 5)
RawShelfPrice(item) ==
    IF item.price_kind = "absent" THEN DefaultShelfPrice ELSE item.estimated_shelf_price

\* shelf_price = item.get(...); if shelf_price <= 0: shelf_price = 5
NormalizedShelfPrice(item) ==
    IF RawShelfPrice(item) <= 0 THEN DefaultShelfPrice ELSE RawShelfPrice(item)

\* round(num/den, 1) of a computed float, in tenths
RoundTenths(num, den) ==
    LET lo == (10 * num) \div den
        r  == (10 * num) % den
    IN  IF 2 * r = den THEN {lo, lo + 1}
        ELSE IF 2 * r < den THEN {lo} ELSE {lo + 1}

\* the if/elif chain on profit_potential = num/den
deal_rating_exclusive(num, den) ==
    IF num > 5 * den THEN "Hot Deal"
    ELSE IF num > 3 * den THEN "Good Find"
    ELSE IF 2 * num > 3 * den THEN "Maybe"
    ELSE "Skip"

deal_rating(num, den) ==
    IF num >= 5 * den THEN "Hot Deal"
    ELSE IF num >= 3 * den THEN "Good Find"
    ELSE IF 2 * num >= 3 * den THEN "Maybe"
    ELSE "Skip"

\* ShelfItem(...): prices of the market in cents, profit_potential in tenths;
\* the other text fields are copied like item_name
ShelfItem(item, shelf_price, low, high, avg, profit, rating) ==
    [item_name |-> item.item_name, estimated_shelf_price |-> shelf_price,
     ebay_low |-> low, ebay_high |-> high, ebay_avg |-> avg,
     profit_potential |-> profit, deal_rating |-> rating]

Raise(error) == [kind |-> "raised", error |-> error]

\* the try block of the loop body for one candidate; md is what the search
\* came to (None when the client is not configured): the deals it can
\* append, or the exception it raises
TryEnrich(item, configured, md) ==
    IF item.shape # "dict" THEN {Raise("AttributeError")}
    ELSE IF configured /\ md.kind = "raised" THEN {md}
    ELSE IF item.price_kind = "null" THEN {Raise("TypeError")}
    ELSE LET ebay_low == IF configured THEN md.min_price ELSE 100 * RawShelfPrice(item) * 2
             ebay_high == IF configured THEN md.max_price ELSE 100 * RawShelfPrice(item) * 8
             ebay_avg == IF configured THEN md.avg_price ELSE 100 * RawShelfPrice(item) * 4
             shelf_price == NormalizedShelfPrice(item)
         IN  {[kind |-> "deal", path |-> "enriched",
               deal |-> ShelfItem(item, shelf_price, ebay_low, ebay_high, ebay_avg,
                                  profit, deal_rating(ebay_avg, 100 * shelf_price))]
                : profit \in RoundTenths(ebay_avg, 100 * shelf_price)}

\* the except block of the loop body: the deal it appends, or the exception
\* that leaves it (item.get on a value that is not a dict, ShelfItem
\* validation of a null price)
Fallback(item) ==
    IF item.shape # "dict" THEN Raise("AttributeError")
    ELSE IF item.price_kind = "null" THEN Raise("ValidationError")
    ELSE [kind |-> "deal", path |-> "fallback",
          deal |-> ShelfItem(item, RawShelfPrice(item), 0, 0, 0, 0, "Check Manually")]

\* the loop body for one candidate
Enrich(item, configured, md) ==
    LET tried == TryEnrich(item, configured, md)
    IN  IF \E t \in tried : t.kind = "raised" THEN {Fallback(item)} ELSE tried

RECURSIVE InsertDealBeforeEquals(_, _)
InsertDealBeforeEquals(d, ds) ==
    IF ds = <<>> THEN <<d>>
    ELSE IF d.profit_potential >= Head(ds).profit_potential THEN <<d>> \o ds
    ELSE <<Head(ds)>> \o InsertDealBeforeEquals(d, Tail(ds))

RECURSIVE InsertDeal(_, _)
InsertDeal(d, ds) ==
    IF ds = <<>> THEN <<d>>
    ELSE IF d.profit_potential > Head(ds).profit_potential THEN <<d>> \o ds
    ELSE <<Head(ds)>> \o InsertDeal(d, Tail(ds))

RECURSIVE SortDeals(_)
\* deals.sort(key=lambda x: x.profit_potential, reverse=True)
SortDeals(ds) ==
    IF ds = <<>> THEN <<>>
    ELSE InsertDeal(ds[Len(ds)], SortDeals(SubSeq(ds, 1, Len(ds) - 1)))

CountRated(ds, rating) == Cardinality({i \in 1..Len(ds) : ds[i].deal_rating = rating})

\* the summary template chosen
Summary(ds) ==
    IF CountRated(ds, "Hot Deal") > 0 THEN "hot deals"
    ELSE IF CountRated(ds, "Good Find") > 0 THEN "good finds"
    ELSE IF ds # <<>> THEN "some items"
    ELSE "none identified"

\* the sort, the summary and ShelfScanResponse(...)
ShelfScanResponse(ds) ==
    [kind |-> "shelf", total_items_found |-> Len(ds), deals |-> SortDeals(ds),
     scan_summary |-> Summary(ds)]

LogEntry(i, md, e) == [candidate |-> i, market |-> md, path |-> e.path, deal |-> e.deal]

RECURSIVE Advance(_, _, _, _, _)
\* the loop from candidate i on, up to the next await or the end of the
\* handler: where the handler can be then
Advance(items, i, ds, log, configured) ==
    IF i > Len(items)
    THEN {[spc |-> "Complete", deals |-> ds, log |-> log,
           response |-> ShelfScanResponse(ds), failure |-> None, sends |-> 0]}
    ELSE IF configured /\ items[i].shape = "dict"
    THEN {[spc |-> "Enriching", deals |-> ds, log |-> log,
           response |-> None, failure |-> None, sends |-> 1]}
    ELSE UNION {IF e.kind = "raised"
                THEN {[spc |-> "Failed", deals |-> ds, log |-> log, response |-> None,
                       failure |-> Unhandled(e.error, "Enriching"), sends |-> 0]}
                ELSE Advance(items, i + 1, Append(ds, e.deal),
                             Append(log, LogEntry(i, None, e)), configured)
                  : e \in Enrich(items[i], configured, None)}

\* identified_items[:request.max_items]
Processed == Take(identified_items, max_items)

InitShelf ==
    /\ spc = "AwaitingImage"
    /\ openai_api_key \in BOOLEAN
    /\ app_id \in BOOLEAN
    /\ cert_id = FALSE
    /\ app_token = FALSE
    /\ max_items \in MaxItemsVals
    /\ identified_items = <<>>
    /\ deals = <<>>
    /\ shelfLog = <<>>
    /\ shelf_response = None
    /\ shelf_failure = None
    /\ NoCalls
    /\ SearchIdle
    /\ IdentifyIdle
    /\ TokenIdle
    /\ ExtractIdle
    /\ DiagIdle

\* scan_shelf_for_deals up to its first await
ShelfStart ==
    /\ spc = "AwaitingImage"
    /\ IF ~openai_api_key
       THEN /\ spc' = "Failed"
            /\ shelf_failure' = HTTPException(500, "AwaitingImage")
            /\ UNCHANGED calls
       ELSE /\ spc' = "Identifying"
            /\ calls' = calls + 1
            /\ UNCHANGED shelf_failure
    /\ UNCHANGED <<max_items, identified_items, deals, shelfLog, shelf_response,
                   id_outcome, openai_api_key, app_id>>
    /\ UNCHANGED <<searchVars, settingVars, extractVars, tokenVars, diag>>
    /\ UNCHANGED <<pc, ai_result, initial, market_data, searchLog, refineLog,
                   response, failure>>

\* the handler moves to situation sit
ShelfMove(sit) ==
    /\ spc' = sit.spc
    /\ deals' = sit.deals
    /\ shelfLog' = sit.log
    /\ shelf_response' = sit.response
    /\ shelf_failure' = sit.failure
    /\ calls' = calls + sit.sends

\* identified_items after the try block that parses the payload
parse_identified_coerced(o) ==
    IF o.kind = "ok" THEN o.items
    ELSE IF o.kind = "not_list"
    THEN <<[shape |-> "text", item_name |-> "", price_kind |-> "absent",
            estimated_shelf_price |-> 0]>>
    ELSE <<>>

parse_identified(o) == IF o.kind = "ok" THEN o.items ELSE <<>>

\* the status of the HTTPException a failed identification call of
\* scan-shelf becomes
shelf_error_status(o) == IF o.kind = "timeout" THEN 504 ELSE 500

\* the identification call ends in o; the payload is parsed and the loop
\* runs up to its first await or to the return
ShelfIdentifyResponds(o) ==
    /\ spc = "Identifying"
    /\ id_outcome' = o.kind
    /\ IF o.kind \in {"timeout", "request_error", "status"}
       THEN /\ spc' = "Failed"
            /\ shelf_failure' = HTTPException(shelf_error_status(o), "Identifying")
            /\ UNCHANGED <<identified_items, deals, shelfLog, shelf_response, calls>>
       ELSE LET parsed == parse_identified(o)
            IN  /\ identified_items' = parsed
                /\ \E sit \in Advance(Take(parsed, max_items), 1, <<>>, <<>>, app_id) :
                      ShelfMove(sit)
    /\ UNCHANGED <<max_items, openai_api_key, app_id>>
    /\ UNCHANGED <<searchVars, settingVars, extractVars, tokenVars, diag>>
    /\ UNCHANGED <<pc, ai_result, initial, market_data, searchLog, refineLog,
                   response, failure>>

\* the search of the candidate in hand ends: d is the marketplace's answer;
\* its deal is appended and the loop goes on
ShelfSearchResponds(d) ==
    /\ spc = "Enriching"
    /\ LET i == Len(shelfLog) + 1
           item == Processed[i]
       IN  \E md \in find_completed_items(app_id, item.item_name, ShelfLimit, TRUE, d) :
           \E e \in Enrich(item, TRUE, md) :
              IF e.kind = "raised"
              THEN /\ spc' = "Failed"
                   /\ shelf_failure' = Unhandled(e.error, "Enriching")
                   /\ UNCHANGED <<deals, shelfLog, shelf_response, calls>>
              ELSE \E sit \in Advance(Processed, i + 1, Append(deals, e.deal),
                                      Append(shelfLog, LogEntry(i, md, e)), TRUE) :
                      ShelfMove(sit)
    /\ UNCHANGED <<max_items, identified_items, id_outcome, openai_api_key, app_id>>
    /\ UNCHANGED <<searchVars, settingVars, extractVars, tokenVars, diag>>
    /\ UNCHANGED <<pc, ai_result, initial, market_data, searchLog, refineLog,
                   response, failure>>

NextShelf ==
    \/ ShelfStart
    \/ \E o \in ShelfOutcomes : ShelfIdentifyResponds(o)
    \/ \E d \in ShelfResponses : ShelfSearchResponds(d)

SpecShelf == InitShelf /\ [][NextShelf]_vars

(***************************************************************************)
(* The diagnostic search endpoint: test_ebay_search.                       *)
(***************************************************************************)
DiagLimit == 10            \* limit=10 of the diagnostic search

InitDiag ==
    /\ diag = [pc |-> "AwaitingQuery", result |-> None]
    /\ data \in Responses
    /\ client = "none"
    /\ limit = 0
    /\ snap = None
    /\ openai_api_key \in BOOLEAN
    /\ app_id \in BOOLEAN
    /\ cert_id = FALSE
    /\ app_token = FALSE
    /\ NoCalls
    /\ IdentifyIdle
    /\ ShelfIdle
    /\ TokenIdle
    /\ ExtractIdle

\* test_ebay_search up to its await
DiagStart ==
    /\ diag.pc = "AwaitingQuery"
    /\ IF ~app_id
       THEN /\ diag' = [pc |-> "Failed", result |-> HTTPException(500, "AwaitingQuery")]
            /\ UNCHANGED calls
       ELSE /\ diag' = [pc |-> "Searching", result |-> None]
            /\ calls' = calls + 1
    /\ UNCHANGED <<id_outcome, searchVars, identifyVars, settingVars, extractVars, shelfVars, tokenVars>>

\* the search ends: the snapshot is returned, any exception becomes a 500
DiagSearchResponds ==
    /\ diag.pc = "Searching"
    /\ \E md \in find_completed_items(app_id, "q", DiagLimit, TRUE, data) :
          diag' = IF md.kind = "raised"
                  THEN [pc |-> "Failed", result |-> HTTPException(500, "Searching")]
                  ELSE [pc |-> "Complete", result |-> md]
    /\ UNCHANGED <<callVars, searchVars, identifyVars, settingVars, extractVars, shelfVars, tokenVars>>

NextDiag == DiagStart \/ DiagSearchResponds

SpecDiag == InitDiag /\ [][NextDiag]_vars

(***************************************************************************)
(* The token-based client, EbayClient, under concurrent searches, and the  *)
(* readiness checks.                                                       *)
(***************************************************************************)
PreIssued == "tokPre"                   \* settings.ebay_app_token when set
ExchangedTokens == {"tokA", "tokB"}     \* tokens the auth endpoint can return

\* what a client-credentials exchange can end in
ExchangeOutcomes ==
    {[kind |-> "transport", token |-> ""], [kind |-> "status", token |-> ""]}
    \cup [kind : {"ok"}, token : ExchangedTokens]

\* _get_access_token up to its await: the token it returns, the error it
\* raises, or the exchange it starts
get_access_token_exchange_first(cached, has_token, has_app_id, has_cert_id) ==
    IF cached # "" THEN [kind |-> "token", token |-> cached]
    ELSE IF has_app_id /\ has_cert_id THEN [kind |-> "exchange", token |-> ""]
    ELSE IF has_token THEN [kind |-> "token", token |-> PreIssued]
    ELSE [kind |-> "raised", token |-> ""]

get_access_token(cached, has_token, has_app_id, has_cert_id) ==
    IF cached # "" THEN [kind |-> "token", token |-> cached]
    ELSE IF has_token THEN [kind |-> "token", token |-> PreIssued]
    ELSE IF ~has_app_id \/ ~has_cert_id THEN [kind |-> "raised", token |-> ""]
    ELSE [kind |-> "exchange", token |-> ""]

\* self._access_token after the exchange ended in o
CacheAfterExchangeUnchecked(cached, o) ==
    IF o.kind = "transport" THEN cached ELSE IF o.kind = "ok" THEN o.token ELSE "error page"

CacheAfterExchange(cached, o) ==
    IF o.kind = "ok" THEN o.token ELSE cached

\* EbayClient.is_configured
EbayClientConfigured(has_token, has_app_id) == has_token \/ has_app_id

\* EbayFindingClient.is_configured
FindingClientConfigured(has_app_id) == has_app_id

\* the body of ai_status
ai_status(has_key, has_app_id) ==
    LET has_openai == has_key
        has_ebay == FindingClientConfigured(has_app_id)
    IN  [openai_configured |-> has_openai, ebay_configured |-> has_ebay,
         image_identification |-> has_openai, market_data |-> has_ebay,
         price_refinement |-> has_openai /\ has_ebay]

InitToken ==
    /\ tpc = [p \in Procs |-> "Ready"]
    /\ access_token = ""
    /\ issued = {}
    /\ sent = [p \in Procs |-> ""]
    /\ exchanges = 0
    /\ token_error = [p \in Procs |-> ""]
    /\ readiness = <<>>
    /\ openai_api_key \in BOOLEAN
    /\ app_id \in BOOLEAN
    /\ cert_id \in BOOLEAN
    /\ app_token \in BOOLEAN
    /\ NoCalls
    /\ SearchIdle
    /\ IdentifyIdle
    /\ ShelfIdle
    /\ DiagIdle
    /\ ExtractIdle

tokenFrame == <<id_outcome, searchVars, identifyVars, settingVars, extractVars, shelfVars, diag, readiness>>

\* search_sold_items of search p, up to its first await
TokenBegin(p) ==
    /\ tpc[p] = "Ready"
    /\ LET got == get_access_token(access_token, app_token, app_id, cert_id)
       IN  CASE got.kind = "token" ->
                  /\ access_token' = got.token
                  /\ sent' = [sent EXCEPT ![p] = got.token]
                  /\ tpc' = [tpc EXCEPT ![p] = "Searching"]
                  /\ calls' = calls + 1
                  /\ UNCHANGED <<exchanges, token_error>>
             [] got.kind = "raised" ->
                  /\ tpc' = [tpc EXCEPT ![p] = "Failed"]
                  /\ token_error' = [token_error EXCEPT ![p] = "ValueError"]
                  /\ UNCHANGED <<access_token, sent, exchanges, calls>>
             [] got.kind = "exchange" ->
                  /\ tpc' = [tpc EXCEPT ![p] = "Exchanging"]
                  /\ exchanges' = exchanges + 1
                  /\ calls' = calls + 1
                  /\ UNCHANGED <<access_token, sent, token_error>>
    /\ UNCHANGED issued
    /\ UNCHANGED tokenFrame

\* the exchange of search p ends in o; on success the token is cached and
\* the search request is sent with it
ExchangeResponds(p, o) ==
    /\ tpc[p] = "Exchanging"
    /\ access_token' = CacheAfterExchange(access_token, o)
    /\ IF o.kind = "ok"
       THEN /\ issued' = issued \cup {o.token}
            /\ sent' = [sent EXCEPT ![p] = access_token']
            /\ tpc' = [tpc EXCEPT ![p] = "Searching"]
            /\ calls' = calls + 1
            /\ UNCHANGED token_error
       ELSE /\ tpc' = [tpc EXCEPT ![p] = "Failed"]
            /\ token_error' = [token_error EXCEPT ![p] = "Exception"]
            /\ UNCHANGED <<issued, sent, calls>>
    /\ UNCHANGED exchanges
    /\ UNCHANGED tokenFrame

\* the search request of search p ends
TokenSearchResponds(p) ==
    /\ tpc[p] = "Searching"
    /\ tpc' = [tpc EXCEPT ![p] = "Done"]
    /\ UNCHANGED <<access_token, issued, sent, exchanges, token_error, calls>>
    /\ UNCHANGED tokenFrame

\* one evaluation of the status endpoint and of is_configured on both clients
ReadinessProbesUpstream ==
    /\ \E p \in Procs : tpc[p] # "Idle"
    /\ Len(readiness) < MaxEvaluations
    /\ readiness' = Append(readiness,
                           [status |-> ai_status(openai_api_key, app_id),
                            finding |-> FindingClientConfigured(app_id),
                            browse |-> EbayClientConfigured(app_token, app_id)])
    /\ calls' = calls + 1
    /\ UNCHANGED <<tpc, access_token, issued, sent, exchanges, token_error>>
    /\ UNCHANGED <<id_outcome, searchVars, identifyVars, settingVars, extractVars, shelfVars, diag>>

Readiness ==
    /\ \E p \in Procs : tpc[p] # "Idle"
    /\ Len(readiness) < MaxEvaluations
    /\ readiness' = Append(readiness,
                           [status |-> ai_status(openai_api_key, app_id),
                            finding |-> FindingClientConfigured(app_id),
                            browse |-> EbayClientConfigured(app_token, app_id)])
    /\ UNCHANGED <<tpc, access_token, issued, sent, exchanges, token_error>>
    /\ UNCHANGED <<callVars, searchVars, identifyVars, settingVars, extractVars, shelfVars, diag>>

NextToken ==
    \/ \E p \in Procs : TokenBegin(p)
    \/ \E p \in Procs : \E o \in ExchangeOutcomes : ExchangeResponds(p, o)
    \/ \E p \in Procs : TokenSearchResponds(p)
    \/ Readiness

SpecToken == InitToken /\ [][NextToken]_vars

(***************************************************************************)
(* Every operation: one request of any of the operations above.            *)
(***************************************************************************)
InitAll == InitSearch \/ Init \/ InitShelf \/ InitDiag \/ InitToken

NextAll == NextSearch \/ Next \/ NextShelf \/ NextDiag \/ NextToken

SpecAll == InitAll /\ [][NextAll]_vars

(***************************************************************************)
(* Configuration and transport errors, over every operation.               *)
(***************************************************************************)
TokenClientUsable == app_token \/ (app_id /\ cert_id)

\* C12: an operation whose required credential is absent fails with a
\* configuration error and issues no external request, before or after the
\* failure: identify and scan-shelf without the reasoning-service key, the
\* diagnostic search and the marketplace search without an app id, the
\* token-based search without a usable credential.
C12_ConfigErrorBeforeAnyCall ==
    /\ (pc # "Idle" /\ ~openai_api_key) =>
          /\ calls = 0
          /\ pc \in {"AwaitingImage", "Failed"}
          /\ pc = "Failed" => failure = HTTPException(500, "AwaitingImage")
    /\ (spc # "Idle" /\ ~openai_api_key) =>
          /\ calls = 0
          /\ spc \in {"AwaitingImage", "Failed"}
          /\ spc = "Failed" => shelf_failure = HTTPException(500, "AwaitingImage")
    /\ (diag.pc # "Idle" /\ ~app_id) =>
          /\ calls = 0
          /\ diag.pc \in {"AwaitingQuery", "Failed"}
          /\ diag.pc = "Failed" => diag.result = HTTPException(500, "AwaitingQuery")
    /\ (client = "finding" /\ ~app_id) =>
          /\ calls = 0
          /\ snap \in {None, ValueError}
    /\ ((\E p \in Procs : tpc[p] # "Idle") /\ ~TokenClientUsable) =>
          /\ calls = 0
          /\ exchanges = 0
          /\ \A p \in Procs : /\ tpc[p] \in {"Ready", "Failed"}
                              /\ tpc[p] = "Failed" => token_error[p] = "ValueError"

C12_Witness ==
    /\ pc = "Failed"
    /\ ~openai_api_key
    /\ failure = HTTPException(500, "AwaitingImage")

\* C13: when the identification call of identify or of scan-shelf times out
\* the request fails with status 504, when it ends in a connection or
\* request error the request fails with status 500, and 504 is produced by
\* a timeout only.
C13_TimeoutDistinctFromTransport ==
    /\ (pc # "Idle" /\ id_outcome = "timeout") =>
          pc = "Failed" /\ failure = HTTPException(504, "Identifying")
    /\ (pc # "Idle" /\ id_outcome = "request_error") =>
          pc = "Failed" /\ failure = HTTPException(500, "Identifying")
    /\ (pc = "Failed" /\ failure.kind = "HTTPException" /\ failure.status = 504) =>
          id_outcome = "timeout"
    /\ (spc # "Idle" /\ id_outcome = "timeout") =>
          spc = "Failed" /\ shelf_failure = HTTPException(504, "Identifying")
    /\ (spc # "Idle" /\ id_outcome = "request_error") =>
          spc = "Failed" /\ shelf_failure = HTTPException(500, "Identifying")
    /\ (spc = "Failed" /\ shelf_failure.kind = "HTTPException"
          /\ shelf_failure.status = 504) => id_outcome = "timeout"

C13_Witness ==
    /\ pc = "Failed"
    /\ id_outcome = "timeout"
    /\ failure = HTTPException(504, "Identifying")

(***************************************************************************)
(* Readiness and the token cache.                                          *)
(***************************************************************************)
\* C14: every readiness answer is the function of the credentials present
\* (key for the reasoning service, app id, pre-issued token), all answers
\* under one configuration are equal, and an evaluation issues no request
\* and changes nothing else, the cached token included.
C14_ReadinessPure ==
    /\ [](\A i \in 1..Len(readiness) :
            /\ readiness[i].status.openai_configured = openai_api_key
            /\ readiness[i].status.image_identification = openai_api_key
            /\ readiness[i].status.ebay_configured = app_id
            /\ readiness[i].status.market_data = app_id
            /\ readiness[i].status.price_refinement = (openai_api_key /\ app_id)
            /\ readiness[i].finding = app_id
            /\ readiness[i].browse = (app_token \/ app_id)
            /\ readiness[i] = readiness[1])
    /\ [][readiness' # readiness =>
             UNCHANGED <<access_token, calls, exchanges, tpc, sent, issued, token_error,
                         openai_api_key, app_id, cert_id, app_token>>]_vars

C14_Witness ==
    /\ Len(readiness) >= 2
    /\ access_token \in ExchangedTokens
    /\ \E p \in Procs : tpc[p] = "Exchanging"

\* C15: with a pre-issued token configured no exchange is ever started,
\* the cache only ever holds that token and every search that sends a
\* request sends that token, whatever the app id and secret.
C15_PreIssuedTokenPrecedence ==
    app_token =>
        /\ exchanges = 0
        /\ issued = {}
        /\ access_token \in {"", PreIssued}
        /\ \A p \in Procs :
              /\ tpc[p] # "Exchanging"
              /\ tpc[p] \in {"Searching", "Done"} => sent[p] = PreIssued
              /\ tpc[p] \notin {"Searching", "Done"} => sent[p] = ""

C15_Witness ==
    /\ app_token /\ app_id /\ cert_id
    /\ \A p \in Procs : tpc[p] = "Done" /\ sent[p] = PreIssued

\* C16: without a pre-issued token, under every interleaving of the
\* searches, the cache is empty or holds a token a successful exchange
\* returned, every search request carries such a token, each search starts
\* at most one exchange, and an exchange is started only while the cache is
\* empty.
C16_TokenCacheBenignRace ==
    /\ [](~app_token =>
            /\ access_token = "" \/ access_token \in issued
            /\ issued \subseteq ExchangedTokens
            /\ \A p \in Procs :
                  tpc[p] \in {"Searching", "Done"} => sent[p] \in issued
            /\ exchanges <= Cardinality(Procs))
    /\ [][exchanges' > exchanges => access_token = ""]_vars

C16_Witness ==
    /\ ~app_token
    /\ exchanges >= 2
    /\ \E p, q \in Procs :
          /\ tpc[p] = "Done" /\ tpc[q] = "Done"
          /\ sent[p] # sent[q]
          /\ access_token = sent[q]

\* C30: whenever is_configured of the token-based client is true, no
\* search fails with the credentials-not-configured error.
C30_ConfiguredNeverUnconfiguredError ==
    EbayClientConfigured(app_token, app_id) =>
        \A p \in Procs : token_error[p] # "ValueError"

(***************************************************************************)
(* What a successful refinement changes.                                   *)
(***************************************************************************)
RefineSucceeded ==
    /\ pc = "Complete"
    /\ refineLog # <<>>
    /\ refineLog[Len(refineLog)].outcome.kind = "ok"

LastRevision == refineLog[Len(refineLog)].outcome.revision

\* C17: after a successful refinement each of estimated_value_low,
\* estimated_value_high and suggested_price of the response is the
\* revision's value if the revision has the field and the value of the
\* first estimate if it has not, each field on its own.
C17_PartialOverwrite ==
    RefineSucceeded =>
        \A k \in {"estimated_value_low", "estimated_value_high", "suggested_price"} :
            response.estimate[k] =
                IF k \in LastRevision.keys THEN LastRevision[k] ELSE initial[k]

C17_Witness ==
    /\ RefineSucceeded
    /\ LastRevision.keys = {"estimated_value_low"}
    /\ response.estimate.estimated_value_low = 30
    /\ response.estimate.estimated_value_high = initial.estimated_value_high

\* C18: after a successful refinement the selling tips of the first
\* estimate are a prefix of the selling tips of the response; a present,
\* non-empty note follows them after a marker, and without one the selling
\* tips are unchanged.
C18_NoteAppendedNeverReplaces ==
    RefineSucceeded =>
        LET pre == initial.selling_tips
            post == response.estimate.selling_tips
            hasNote == /\ "market_analysis" \in LastRevision.keys
                       /\ LastRevision.market_analysis # ""
        IN  /\ Len(post) >= Len(pre)
            /\ SubSeq(post, 1, Len(pre)) = pre
            /\ hasNote => post = pre \o "\n\nMarket Analysis: " \o LastRevision.market_analysis
            /\ ~hasNote => post = pre

C18_Witness ==
    /\ RefineSucceeded
    /\ "market_analysis" \in LastRevision.keys
    /\ LastRevision.market_analysis # ""
    /\ response.estimate.selling_tips # initial.selling_tips

\* C19: the response of identify has a market block exactly when a
\* snapshot with at least one result was obtained, whether or not the
\* refinement succeeded; the block repeats the snapshot's query, total and
\* four statistics and lists its first min(5, n) items in order.
C19_MarketBlockIffMarketData ==
    (pc \in {"Complete", "Failed"} /\ initial # None) =>
        LET obtained == market_data # None /\ market_data.total_found > 0
        IN  /\ obtained => /\ pc = "Complete"
                           /\ response.market_data = MarketDataResponse(market_data)
                           /\ Len(response.market_data.comparables) <= 5
            /\ (pc = "Complete" /\ ~obtained) => response.market_data = None

(***************************************************************************)
(* Failure isolation in scan-shelf.                                        *)
(***************************************************************************)
\* C20: the loop over the candidates never aborts the request; when the
\* handler returns there is one output entry per processed candidate, a
\* candidate whose enrichment raised is reported with rating "Check
\* Manually", profit 0 and zero low, high and average, and every other
\* candidate is reported as its enrichment alone computes it.
C20_ShelfFailureIsolation ==
    /\ ~(spc = "Failed" /\ shelf_failure.stage = "Enriching")
    /\ spc = "Complete" =>
          /\ Len(shelf_response.deals) = Len(Processed)
          /\ Len(shelfLog) = Len(Processed)
          /\ \A i \in 1..Len(shelfLog) :
                LET entry == shelfLog[i]
                    alone == TryEnrich(Processed[i], app_id, entry.market)
                IN  /\ entry.candidate = i
                    /\ entry.path = "fallback" =>
                          /\ \E t \in alone : t.kind = "raised"
                          /\ entry.deal.deal_rating = "Check Manually"
                          /\ entry.deal.profit_potential = 0
                          /\ entry.deal.ebay_low = 0
                          /\ entry.deal.ebay_high = 0
                          /\ entry.deal.ebay_avg = 0
                    /\ entry.path = "enriched" =>
                          \E t \in alone : t.kind = "deal" /\ t.deal = entry.deal
                    /\ \E j \in 1..Len(shelf_response.deals) :
                          shelf_response.deals[j] = entry.deal

\* the fields of an estimate other than the prices and the selling tips
SameDescription(a, b) ==
    /\ a.item_name = b.item_name
    /\ a.description = b.description
    /\ a.category = b.category
    /\ a.era_period = b.era_period
    /\ a.condition_notes = b.condition_notes
    /\ a.keywords = b.keywords
    /\ a.confidence = b.confidence

\* the refinement call ended in a non-success status
RefineFellBack ==
    /\ refineLog # <<>>
    /\ refineLog[Len(refineLog)].outcome.kind = "status"

\* C28: when the refinement call ends in success or in a non-success
\* status, the estimate returned has the name, description, category,
\* era/period, condition notes, keyword list and confidence of the estimate
\* before refinement (initial is the estimate as identification returned
\* it).
C28_RefineFrame ==
    (RefineSucceeded \/ RefineFellBack) =>
        /\ pc = "Complete"
        /\ SameDescription(response.estimate, initial)
        /\ SameDescription(ai_result, initial)

C28_Witness ==
    /\ RefineSucceeded
    /\ "confidence" \in LastRevision.keys
    /\ "estimated_value_low" \in LastRevision.keys
    /\ LastRevision.confidence # initial.confidence
    /\ response.estimate.estimated_value_low # initial.estimated_value_low
    /\ response.estimate.confidence = initial.confidence

\* the broader search was issued and is over
BroaderSearchOver == Len(searchLog) = 2 /\ searchLog[2].outcome # None

\* C29: once the broader search is over, the snapshot of identify is the
\* broader search's result whatever the first search reported: refinement
\* is decided on it and called with it, and the market block of the
\* response is built from it; if the broader search raised there is no
\* snapshot, no refinement and no market block.
C29_BroadenedReplaces ==
    BroaderSearchOver =>
        LET first == searchLog[1].outcome
            second == searchLog[2].outcome
        IN  IF second.kind = "raised"
            THEN /\ market_data = None
                 /\ refineLog = <<>>
                 /\ pc = "Complete"
                 /\ response = IdentifyResponse(initial, None)
            ELSE /\ market_data = second
                 /\ (refineLog # <<>>) <=> HasResults(second)
                 /\ refineLog # <<>> => refineLog[1].market_data = second
                 /\ pc = "Complete" =>
                       response.market_data =
                           IF HasResults(second) THEN MarketDataResponse(second) ELSE None

\* the broader search reports fewer results than the first, and the
\* response carries its block
C29_Witness ==
    /\ BroaderSearchOver
    /\ searchLog[2].outcome.kind = "data"
    /\ searchLog[2].outcome.total_found > 0
    /\ searchLog[2].outcome.total_found < searchLog[1].outcome.total_found
    /\ pc = "Complete"
    /\ response.market_data = MarketDataResponse(searchLog[2].outcome)
    /\ response.market_data.total_found < searchLog[1].outcome.total_found

(***************************************************************************)
(* The entries of the scan-shelf output.                                   *)
(***************************************************************************)
\* the shelf price the floor rule gives a candidate
FlooredPrice(item) ==
    IF item.price_kind = "number" /\ item.estimated_shelf_price > 0
    THEN item.estimated_shelf_price
    ELSE 5

\* C21: every entry of the output, enriched or reported after a failed
\* enrichment, carries the candidate's shelf price when that is > 0 and 5
\* when it is absent or <= 0, so every reported shelf price is > 0.
C21_ShelfPriceFloor ==
    spc = "Complete" =>
        \A i \in 1..Len(shelfLog) :
            /\ shelfLog[i].deal.estimated_shelf_price > 0
            /\ shelfLog[i].deal.estimated_shelf_price = FlooredPrice(Processed[i])

\* C22: without a configured marketplace client every entry has low, high
\* and average of 2, 8 and 4 times its floored shelf price, profit 4.0 and
\* rating "Good Find".
C22_HeuristicBounds ==
    (spc = "Complete" /\ ~app_id) =>
        \A i \in 1..Len(shelfLog) :
            LET deal == shelfLog[i].deal
                price == FlooredPrice(Processed[i])
            IN  /\ deal.ebay_low = 100 * 2 * price
                /\ deal.ebay_high = 100 * 8 * price
                /\ deal.ebay_avg = 100 * 4 * price
                /\ deal.profit_potential = 40
                /\ deal.deal_rating = "Good Find"

Enriched == {i \in 1..Len(shelfLog) : shelfLog[i].path = "enriched"}

\* C23: the rating of an enriched entry is decided by its ratio of average
\* to shelf price with inclusive lower thresholds: >= 5 "Hot Deal", >= 3
\* and < 5 "Good Find", >= 1.5 and < 3 "Maybe", < 1.5 "Skip"; one rating
\* applies to every ratio.
C23_RatingThresholds ==
    \A i \in Enriched :
        LET deal == shelfLog[i].deal
            num == deal.ebay_avg
            den == 100 * deal.estimated_shelf_price
        IN  /\ deal.deal_rating \in {"Hot Deal", "Good Find", "Maybe", "Skip"}
            /\ deal.deal_rating = "Hot Deal" <=> num >= 5 * den
            /\ deal.deal_rating = "Good Find" <=> (num >= 3 * den /\ num < 5 * den)
            /\ deal.deal_rating = "Maybe" <=> (2 * num >= 3 * den /\ num < 3 * den)
            /\ deal.deal_rating = "Skip" <=> 2 * num < 3 * den

C23_Witness ==
    /\ spc = "Complete"
    /\ \E i \in Enriched :
          /\ 2 * shelfLog[i].deal.ebay_avg = 3 * 100 * shelfLog[i].deal.estimated_shelf_price
          /\ shelfLog[i].deal.deal_rating = "Maybe"
    /\ \E i \in Enriched :
          /\ shelfLog[i].deal.ebay_avg = 5 * 100 * shelfLog[i].deal.estimated_shelf_price
          /\ shelfLog[i].deal.deal_rating = "Hot Deal"

\* C27: in every enriched entry the rating agrees with the reported profit,
\* the ratio rounded to one decimal: >= 5.0 "Hot Deal", >= 3.0 and < 5.0
\* "Good Find", >= 1.5 and < 3.0 "Maybe", < 1.5 "Skip".
C27_RatingAgreesWithReportedProfit ==
    \A i \in Enriched :
        LET deal == shelfLog[i].deal
            tenths == deal.profit_potential
        IN  /\ deal.deal_rating = "Hot Deal" <=> tenths >= 50
            /\ deal.deal_rating = "Good Find" <=> (tenths >= 30 /\ tenths < 50)
            /\ deal.deal_rating = "Maybe" <=> (tenths >= 15 /\ tenths < 30)
            /\ deal.deal_rating = "Skip" <=> tenths < 15

Injections(n) == {f \in [1..n -> 1..n] : \A i, j \in 1..n : f[i] = f[j] => i = j}

\* C24: the output lists the entries appended by the loop, each once, in
\* descending order of profit, and entries of equal profit keep the order
\* in which the loop appended them.
C24_SortedStablePermutation ==
    spc = "Complete" =>
        LET out == shelf_response.deals
            n == Len(deals)
        IN  /\ Len(out) = n
            /\ \A i \in 1..n : deals[i] = shelfLog[i].deal
            /\ \A i, j \in 1..n : i < j => out[i].profit_potential >= out[j].profit_potential
            /\ \E f \in Injections(n) :
                  /\ \A i \in 1..n : out[f[i]] = deals[i]
                  /\ \A i, j \in 1..n :
                        (i < j /\ deals[i].profit_potential = deals[j].profit_potential)
                            => f[i] < f[j]

C24_Witness ==
    /\ spc = "Complete"
    /\ Len(deals) >= 2
    /\ deals[1].profit_potential = deals[2].profit_potential
    /\ deals[1] # deals[2]
    /\ shelf_response.deals[1] = deals[1]

\* C25: when the identification payload of scan-shelf is not JSON or is
\* not a list, the request completes with no entries, no marketplace
\* search is issued and the summary is the one for nothing identified.
C25_UnparseablePayloadIsEmpty ==
    (spc # "Idle" /\ id_outcome \in {"bad_json", "not_list"}) =>
        /\ spc = "Complete"
        /\ identified_items = <<>>
        /\ shelf_response.total_items_found = 0
        /\ shelf_response.deals = <<>>
        /\ shelf_response.scan_summary = "none identified"
        /\ calls = 1

C25_Witness ==
    /\ spc = "Complete"
    /\ id_outcome = "not_list"
    /\ shelf_response.scan_summary = "none identified"

(***************************************************************************)
(* The structured-response extractor: the fence handling and json.loads    *)
(* that identify_item, refine_estimate_with_market_data and                *)
(* scan_shelf_for_deals apply to the message content.                      *)
(***************************************************************************)
MaxTokens == 4             \* tokens in a message content

\* A content is a sequence of tokens; its text is their concatenation.
\* A fence is three backquotes; FenceJson is a fence directly followed by
\* the word json, and Label is what is left of it when the text is split
\* at fences.  ObjOpen and ObjClose are the two ends of a JSON object whose
\* only value is a string, the tokens between them being that string.
FenceJson == "<fence>json"
Fence == "<fence>"
Label == "json"
ObjA == "{item_name: Vase}"
ObjB == "{item_name: Bowl}"
ObjOpen == "{item_name: <quote>"
ObjClose == "<quote>}"
Null == "null"
Ws == "\n"
Prose == "Here is the result:"
Objects == {ObjA, ObjB}
ContentTokens == {FenceJson, Fence, ObjA, ObjB, ObjOpen, ObjClose, Null, Ws, Prose}

\* the tokens a JSON string may hold unescaped
StringTokens == {FenceJson, Fence, Label, Null, Prose}

\* a JSON object whose string value holds a fenced span
ObjF == <<ObjOpen, Fence, Null, Fence, ObjClose>>

\* the JSON objects a response may carry
JsonObjects == {<<ObjA>>, <<ObjB>>, ObjF}

\* the three ways a response carries an object
Wrappings == {"json_fence", "plain_fence", "raw"}

Wrap(w, o) ==
    CASE w = "json_fence" -> <<FenceJson, Ws>> \o o \o <<Ws, Fence>>
      [] w = "plain_fence" -> <<Fence, Ws>> \o o \o <<Ws, Fence>>
      [] w = "raw" -> o

\* the index of the first token of s that is in S, 0 if there is none
IndexOf(s, S) ==
    IF \E i \in 1..Len(s) : s[i] \in S
    THEN CHOOSE i \in 1..Len(s) : s[i] \in S /\ \A j \in 1..(i - 1) : s[j] \notin S
    ELSE 0

\* s.split(sep)[0], sep being any token of S
Before(s, S) == IF IndexOf(s, S) = 0 THEN s ELSE SubSeq(s, 1, IndexOf(s, S) - 1)

\* s.split(sep)[1], sep being any token of S and occurring in s
Second(s, S) == Before(SubSeq(s, IndexOf(s, S) + 1, Len(s)), S)

RECURSIVE SplitAtFences(_)
\* the tokens of s with every FenceJson written as Fence, Label
SplitAtFences(s) ==
    IF s = <<>> THEN <<>>
    ELSE (IF Head(s) = FenceJson THEN <<Fence, Label>> ELSE <<Head(s)>>)
         \o SplitAtFences(Tail(s))

\* the if / elif on the two fence markers
fenced_interior_fence_first(s) ==
    IF \E i \in 1..Len(s) : s[i] \in {Fence, FenceJson}
    THEN Before(Second(SplitAtFences(s), {Fence}), {Fence})
    ELSE s

fenced_interior(s) ==
    IF \E i \in 1..Len(s) : s[i] = FenceJson
    THEN Before(Second(s, {FenceJson}), {Fence, FenceJson})
    ELSE IF \E i \in 1..Len(s) : s[i] = Fence
    THEN Before(Second(s, {Fence}), {Fence})
    ELSE s

RECURSIVE lstrip(_)
lstrip(s) == IF s # <<>> /\ Head(s) = Ws THEN lstrip(Tail(s)) ELSE s

RECURSIVE rstrip(_)
rstrip(s) ==
    IF s # <<>> /\ s[Len(s)] = Ws THEN rstrip(SubSeq(s, 1, Len(s) - 1)) ELSE s

\* content.strip()
strip(s) == rstrip(lstrip(s))

\* whether text is one JSON value
IsJson(text) ==
    \/ Len(text) = 1 /\ text[1] \in Objects \cup {Null}
    \/ /\ Len(text) >= 2
       /\ text[1] = ObjOpen
       /\ text[Len(text)] = ObjClose
       /\ \A i \in 2..(Len(text) - 1) : text[i] \in StringTokens

\* json.loads(text): the value, written as its text, or JSONDecodeError
json_loads(text) ==
    IF IsJson(text)
    THEN [kind |-> "parsed", value |-> text]
    ELSE [kind |-> "raised", value |-> <<"json.JSONDecodeError">>]

\* the fence handling followed by json.loads(content.strip())
extract_json(s) ==
    LET interior == fenced_interior(s)
    IN  [text |-> interior, result |-> json_loads(strip(interior))]

\* the contents a response may have: any short text, or an object wrapped
Contents ==
    SeqsUpTo(ContentTokens, MaxTokens)
        \cup {Wrap(w, o) : w \in Wrappings, o \in JsonObjects}

InitExtract ==
    /\ content \in Contents
    /\ extracted = None
    /\ openai_api_key = TRUE
    /\ app_id = FALSE
    /\ cert_id = FALSE
    /\ app_token = FALSE
    /\ NoCalls
    /\ SearchIdle
    /\ IdentifyIdle
    /\ ShelfIdle
    /\ TokenIdle
    /\ DiagIdle

\* the extraction of one message content
Extract ==
    /\ extracted = None
    /\ extracted' = extract_json(content)
    /\ UNCHANGED <<content, callVars, searchVars, identifyVars, settingVars,
                   shelfVars, tokenVars, diag>>

NextExtract == Extract

SpecExtract == InitExtract /\ [][NextExtract]_vars

\* the first position at or after from of a token of S, Len(s) + 1 if none
FirstAt(s, S, from) ==
    IF \E i \in from..Len(s) : s[i] \in S
    THEN CHOOSE i \in from..Len(s) : s[i] \in S /\ \A j \in from..(i - 1) : s[j] \notin S
    ELSE Len(s) + 1

AllWs(s) == \A i \in 1..Len(s) : s[i] = Ws

\* the rules in order: the text parsed is the interior of the first fence
\* marker directly followed by json (from it to the next marker or the
\* end) if there is one, else the interior of the first fence marker if
\* there is one, else the whole content; it is parsed after trimming.
RulesInOrder ==
    LET n == Len(content)
        j == FirstAt(content, {FenceJson}, 1)
        f == FirstAt(content, {Fence, FenceJson}, 1)
        expected ==
            IF j <= n
            THEN SubSeq(content, j + 1, FirstAt(content, {Fence, FenceJson}, j + 1) - 1)
            ELSE IF f <= n
            THEN SubSeq(content, f + 1, FirstAt(content, {Fence, FenceJson}, f + 1) - 1)
            ELSE content
    IN  /\ extracted.text = expected
        /\ LET lo == IF AllWs(expected) THEN Len(expected) + 1
                      ELSE CHOOSE i \in 1..Len(expected) :
                               expected[i] # Ws /\ AllWs(SubSeq(expected, 1, i - 1))
               hi == IF AllWs(expected) THEN Len(expected)
                      ELSE CHOOSE i \in 1..Len(expected) :
                               expected[i] # Ws /\ AllWs(SubSeq(expected, i + 1, Len(expected)))
               trimmed == SubSeq(expected, lo, hi)
           IN  IF IsJson(trimmed)
               THEN extracted.result = [kind |-> "parsed", value |-> trimmed]
               ELSE extracted.result.kind = "raised"

\* whether the text of an object holds a fence marker
HoldsFence(o) == \E i \in 1..Len(o) : o[i] \in {Fence, FenceJson}

\* C26 as claimed: the rules are applied in order, and every JSON object
\* yields itself as the parsed value whether it is wrapped in a json fence,
\* wrapped in a plain fence, or not wrapped.
C26_ExtractionPolicy ==
    extracted # None =>
        /\ RulesInOrder
        /\ \A o \in JsonObjects : \A w \in Wrappings :
              content = Wrap(w, o)
                  => extracted.result = [kind |-> "parsed", value |-> o]

\* C26 as amended: the rules are applied in order, and every JSON object
\* whose text holds no fence marker yields itself as the parsed value
\* whether it is wrapped in a json fence, in a plain fence, or not wrapped.
C26_ExtractionPolicyFenceFree ==
    extracted # None =>
        /\ RulesInOrder
        /\ \A o \in JsonObjects : \A w \in Wrappings :
              (content = Wrap(w, o) /\ ~HoldsFence(o))
                  => extracted.result = [kind |-> "parsed", value |-> o]

C26_Witness ==
    /\ content = Wrap("json_fence", <<ObjA>>)
    /\ extracted # None
    /\ extracted.result = [kind |-> "parsed", value |-> <<ObjA>>]

====
